---- MODULE Spec2Model ----
(* Sale transaction and inventory consistency of CrudeLoja.                 *)
(*                                                                          *)
(* The relational store is modelled as the rows every reader can see        *)
(* (products, clients, sales, saleItems) plus, for each request, the rows   *)
(* its open transaction has written and not yet committed.  A statement of  *)
(* a transaction is one step; other requests interleave between statements. *)
EXTENDS Integers, Sequences, FiniteSets, TLC

\* ---------------------------------------------------------------- bounds
MaxProducts == 1
MaxClients == 1
MaxRequests == 2
MaxItems == 2
MaxQuantity == 1
MaxStock == 1
MaxPrice == 2
MaxDate == 2
MaxName == 1
MaxInstant == 4
DayLength == 2
MaxSales == 3
MaxRanked == 2
MaxTopItems == 3
MaxText == 2

\* SQL NULL / JS null for an integer column, and JS undefined for a body field
Null == 0
Undefined == -1

ProductIds == 1 .. MaxProducts
\* product ids a caller may name: the last one is never assigned
NamedProductIds == 1 .. MaxProducts + 1
ClientIds == 1 .. MaxClients
Requests == 1 .. MaxRequests
Dates == 1 .. MaxDate
\* the date the storage-level callers stamp on a sale
SaleDates == {MaxDate}
Prices == 1 .. MaxPrice
Stocks == 0 .. MaxStock
\* quantities the storage-level callers pass, and those a request body may carry
Quantities == 1 .. MaxQuantity
BodyQuantities == {-1} \cup Quantities

VARIABLES
    products,     \* table products: id -> [price, stock]
    clients,      \* table clients: id -> [lastOrderDate]
    sales,        \* table sales: set of [id, date, clientId, total]
    saleItems,    \* table sale_items: set of [id, saleId, productId, quantity, unitPrice, total]
    productSeq,   \* serial of products.id
    clientSeq,    \* serial of clients.id
    saleSeq,      \* serial of sales.id
    saleItemSeq,  \* serial of sale_items.id
    tx,           \* per request: the createSale call and its open transaction
    storage,      \* the IStorage implementation exported as `storage`
    res,          \* the last response of a client, product or report route
    page,         \* the sales report page: the arrays it holds and its ranking
    mem,          \* a MemStorage instance given the same calls as the database
    shop          \* per session: the sales page (fetched products, cart, processSale)

vars == <<products, clients, sales, saleItems, productSeq, clientSeq, saleSeq, saleItemSeq, tx,
          storage, res, page, mem, shop>>

tables == <<products, clients, sales, saleItems>>
serials == <<productSeq, clientSeq, saleSeq, saleItemSeq>>
\* what the storage and the sale transaction never touch
served == <<storage, res, page, mem, shop>>

\* ---------------------------------------------------------------- helpers
RECURSIVE SeqSum(_)
SeqSum(s) == IF s = << >> THEN 0 ELSE Head(s) + SeqSum(Tail(s))

\* quantity of product p summed over a list of line items
RECURSIVE SumQuantity(_, _)
SumQuantity(items, p) ==
    IF items = << >> THEN 0
    ELSE (IF Head(items).productId = p THEN Head(items).quantity ELSE 0)
         + SumQuantity(Tail(items), p)

NoSale == [id |-> Null, date |-> Null, clientId |-> Null, total |-> 0]

\* req.body of POST /api/sales; a field that is missing is Undefined
NoBody == [sale |-> [kind |-> "undefined", clientId |-> Undefined, date |-> Undefined, total |-> Undefined],
           clientId |-> Undefined, date |-> Undefined, total |-> Undefined,
           items |-> [kind |-> "undefined", elems |-> << >>]]

IdleTx == [pc |-> "idle", via |-> "none", body |-> NoBody, sale |-> NoSale, items |-> << >>,
           newSale |-> NoSale, i |-> 0, error |-> "none",
           wItems |-> {}, wStock |-> << >>, wClients |-> << >>]

InFlight(r) == tx[r].pc \in {"insertSale", "insertItems", "updateStock", "updateClient", "commit"}

\* ---------------------------------------------------------------- inputs
\* a line item as the sales page builds it: unit price and line total are
\* supplied by the caller
LineItem(p, q, price) == [productId |-> p, quantity |-> q, unitPrice |-> price, total |-> price * q]

\* unitPrice: item.product.price of the product as the caller last saw it
PriceSeen(p) == IF p \in DOMAIN products THEN products[p].price ELSE 1

LineItems(quantities) == {LineItem(p, q, PriceSeen(p)) : p \in NamedProductIds, q \in quantities}

ItemLists(quantities) == UNION {[1 .. n -> LineItems(quantities)] : n \in 0 .. MaxItems}

ItemsTotal(items) == SeqSum([k \in 1 .. Len(items) |-> items[k].total])

\* ---------------------------------------------------------------- store
\* min_stock of a product inserted without one
DEFAULT_MIN_STOCK == 5

\* texts (name, description, category, sku) are told apart by a code; the
\* name stands for the three required text columns, which every operation
\* treats alike
Names == 1 .. MaxName

\* InsertProduct / InsertClient as the sale callers pass them: the optional
\* fields are left out
InsertProduct(price, stock) ==
    [name |-> 1, price |-> price, stock |-> stock, minStock |-> Undefined, sku |-> Undefined]
InsertClient == [name |-> 1]

\* no response yet; nothing fetched by the report page.  seq alternates with
\* every response, which tells a repeated response from no response
NoRange == [startDate |-> 0, endDate |-> 0]
NoResponse ==
    [route |-> "none", status |-> 0, id |-> 0, range |-> NoRange, result |-> << >>, seq |-> 0]
NoPage == [saleItems |-> << >>, products |-> << >>, limit |-> 0, topProducts |-> << >>]

\* search?: string left out
NoTerm == [kind |-> "undefined", value |-> << >>]

\* new MemStorage(): empty maps, this.clientId = 1, this.productId = 1
NoMem ==
    [products |-> << >>, clients |-> << >>, productId |-> 1, clientId |-> 1,
     search |-> NoTerm, returned |-> << >>]

\* a sales page that is not open: no query data, an empty cart, no mutation
NoSalesPage == [data |-> << >>, fetching |-> FALSE, cart |-> << >>, pc |-> "closed",
                items |-> << >>, i |-> 0, saleId |-> Null]
NoShop == [s \in Requests |-> NoSalesPage]

EmptyStore ==
    /\ products = << >>
    /\ clients = << >>
    /\ sales = {}
    /\ saleItems = {}
    /\ productSeq = 0
    /\ clientSeq = 0
    /\ saleSeq = 0
    /\ saleItemSeq = 0
    /\ tx = [r \in Requests |-> IdleTx]

\* the server as it starts on an empty store with one of the two storages
Installed(impl) ==
    /\ EmptyStore
    /\ storage = impl
    /\ res = NoResponse
    /\ page = NoPage
    /\ mem = NoMem
    /\ shop = NoShop

Init == Installed("DatabaseStorage")

\* variant: the update is not serialised on the row by the store
NoRowLock(r, p) == FALSE

\* a row of products is locked by an open transaction that has updated it
RowLockedByOther(r, p) ==
    \E o \in Requests \ {r} : InFlight(o) /\ p \in DOMAIN tx[o].wStock

ProductRowLocked(p) ==
    \E o \in Requests : InFlight(o) /\ p \in DOMAIN tx[o].wStock

ClientRowLockedByOther(r, c) ==
    \E o \in Requests \ {r} : InFlight(o) /\ c \in DOMAIN tx[o].wClients

\* the row INSERT stores: a column left out takes its default
InsertedRow(product, now) ==
    [name |-> product.name, price |-> product.price, stock |-> product.stock,
     minStock |-> IF product.minStock = Undefined THEN DEFAULT_MIN_STOCK ELSE product.minStock,
     sku |-> IF product.sku = Undefined THEN Null ELSE product.sku,
     updatedAt |-> now]

\* the row UPDATE ... SET leaves: .set({...product, updatedAt: now}) names only
\* the columns whose value is not undefined
SetColumns(row, product, now) ==
    [name |-> product.name, price |-> product.price, stock |-> product.stock,
     minStock |-> IF product.minStock = Undefined THEN row.minStock ELSE product.minStock,
     sku |-> IF product.sku = Undefined THEN row.sku ELSE product.sku,
     updatedAt |-> now]

\* DatabaseStorage.createProduct
CreateProduct(product, now) ==
    /\ productSeq < MaxProducts
    /\ productSeq' = productSeq + 1
    /\ products' = (productSeq + 1 :> InsertedRow(product, now)) @@ products
    /\ UNCHANGED <<clients, sales, saleItems, clientSeq, saleSeq, saleItemSeq, tx>>

\* variant: editing a product re-prices the sale items that reference it
UpdateProductRepricesItems(id, product, now) ==
    /\ products' = IF id \in DOMAIN products
                   THEN [products EXCEPT ![id] = SetColumns(products[id], product, now)]
                   ELSE products
    /\ saleItems' = {IF i.productId = id
                     THEN [i EXCEPT !.unitPrice = product.price,
                                    !.total = product.price * i.quantity]
                     ELSE i : i \in saleItems}
    /\ UNCHANGED <<clients, sales, serials, tx>>

\* DatabaseStorage.updateProduct
UpdateProduct(id, product, now) ==
    /\ ~ProductRowLocked(id)
    /\ products' = IF id \in DOMAIN products
                   THEN [products EXCEPT ![id] = SetColumns(products[id], product, now)]
                   ELSE products
    /\ UNCHANGED <<clients, sales, saleItems, serials, tx>>

\* DatabaseStorage.createClient
CreateClient(client, now) ==
    /\ clientSeq < MaxClients
    /\ clientSeq' = clientSeq + 1
    /\ clients' = (clientSeq + 1 :> [name |-> client.name, lastOrderDate |-> now]) @@ clients
    /\ UNCHANGED <<products, sales, saleItems, productSeq, saleSeq, saleItemSeq, tx>>

\* rows of sale_items, visible or written by an open transaction, hold a key
\* lock on the products row they reference; a sales row does so on its client
ProductKeyLocked(p) ==
    \E o \in Requests : InFlight(o) /\ \E i \in tx[o].wItems : i.productId = p

ClientKeyLocked(c) ==
    \E o \in Requests : InFlight(o) /\ tx[o].newSale.id # Null /\ tx[o].newSale.clientId = c

ClientRowLocked(c) ==
    \E o \in Requests : InFlight(o) /\ c \in DOMAIN tx[o].wClients

\* variant: the store does not look at sale_items when a product is deleted
NeverReferenced(id) == FALSE

\* foreign key sale_items.product_id -> products.id (no onDelete action): the
\* DELETE of a referenced product raises a foreign-key violation
ReferencedBySaleItems(id) == \E i \in saleItems : i.productId = id

\* foreign key sales.client_id -> clients.id (no onDelete action)
ReferencedBySales(id) == \E s \in sales : s.clientId = id

\* a table without the row of id
WithoutRow(table, id) == [k \in DOMAIN table \ {id} |-> table[k]]

\* DatabaseStorage.deleteProduct: the statement throws when the row is still
\* referenced, else it removes the row if there is one
DeleteProduct(id) ==
    /\ ~ProductRowLocked(id) /\ ~ProductKeyLocked(id)
    /\ products' = IF ReferencedBySaleItems(id) THEN products ELSE WithoutRow(products, id)
    /\ UNCHANGED <<clients, sales, saleItems, serials, tx>>

\* DatabaseStorage.updateClient
UpdateClientById(id, client) ==
    /\ ~ClientRowLocked(id)
    /\ clients' = IF id \in DOMAIN clients
                  THEN [clients EXCEPT ![id].name = client.name]
                  ELSE clients
    /\ UNCHANGED <<products, sales, saleItems, serials, tx>>

\* variant: the foreign key of sales is declared ON DELETE SET NULL
DeleteClientSetsNull(id) ==
    /\ ~ClientRowLocked(id) /\ ~ClientKeyLocked(id)
    /\ clients' = WithoutRow(clients, id)
    /\ sales' = {IF s.clientId = id THEN [s EXCEPT !.clientId = Null] ELSE s : s \in sales}
    /\ UNCHANGED <<products, saleItems, serials, tx>>

\* DatabaseStorage.deleteClient
DeleteClient(id) ==
    /\ ~ClientRowLocked(id) /\ ~ClientKeyLocked(id)
    /\ clients' = IF ReferencedBySales(id) THEN clients ELSE WithoutRow(clients, id)
    /\ UNCHANGED <<products, sales, saleItems, serials, tx>>

\* ---------------------------------------------------------------- MemStorage
\* { ...product, id, updatedAt: now }: a key the caller left out stays out
MemNewProduct(product, now) ==
    [name |-> product.name, price |-> product.price, stock |-> product.stock,
     minStock |-> product.minStock, sku |-> product.sku, updatedAt |-> now]

\* { ...existingProduct, ...product, updatedAt: now }
Spread(existingProduct, product, now) ==
    [name |-> product.name, price |-> product.price, stock |-> product.stock,
     minStock |-> IF product.minStock = Undefined THEN existingProduct.minStock
                  ELSE product.minStock,
     sku |-> IF product.sku = Undefined THEN existingProduct.sku ELSE product.sku,
     updatedAt |-> now]

\* MemStorage.createProduct: this.productId++ starts at 1
MemCreateProduct(product, now) ==
    /\ productSeq < MaxProducts
    /\ productSeq' = productSeq + 1
    /\ products' = (productSeq + 1 :> MemNewProduct(product, now)) @@ products
    /\ UNCHANGED <<clients, sales, saleItems, clientSeq, saleSeq, saleItemSeq, tx>>

\* MemStorage.updateProduct
MemUpdateProduct(id, product, now) ==
    /\ products' = IF id \in DOMAIN products
                   THEN [products EXCEPT ![id] = Spread(products[id], product, now)]
                   ELSE products
    /\ UNCHANGED <<clients, sales, saleItems, serials, tx>>

\* MemStorage.deleteProduct: this.products.delete(id)
MemDeleteProduct(id) ==
    /\ products' = WithoutRow(products, id)
    /\ UNCHANGED <<clients, sales, saleItems, serials, tx>>

\* MemStorage.createClient
MemCreateClient(client, now) ==
    /\ clientSeq < MaxClients
    /\ clientSeq' = clientSeq + 1
    /\ clients' = (clientSeq + 1 :> [name |-> client.name, lastOrderDate |-> now]) @@ clients
    /\ UNCHANGED <<products, sales, saleItems, productSeq, saleSeq, saleItemSeq, tx>>

\* MemStorage.updateClient
MemUpdateClient(id, client) ==
    /\ clients' = IF id \in DOMAIN clients
                  THEN [clients EXCEPT ![id].name = client.name]
                  ELSE clients
    /\ UNCHANGED <<products, sales, saleItems, serials, tx>>

\* MemStorage.deleteClient
MemDeleteClient(id) ==
    /\ clients' = WithoutRow(clients, id)
    /\ UNCHANGED <<products, sales, saleItems, serials, tx>>

\* ---------------------------------------------------------------- createSale
\* the row a transaction sees for product p: its own version if it wrote one
StockSeen(r, p) == IF p \in DOMAIN tx[r].wStock THEN tx[r].wStock[p] ELSE products[p].stock

\* sql`${products.stock} - ${item.quantity}`
StockExpr(stock, quantity) == stock - quantity

\* rows of sale_items inserted for the call: items.map(item => ({...item, saleId}))
ItemRows(items, saleId, seq) ==
    {[id |-> seq + k, saleId |-> saleId, productId |-> items[k].productId,
      quantity |-> items[k].quantity, unitPrice |-> items[k].unitPrice,
      total |-> items[k].total] : k \in 1 .. Len(items)}

\* variant: sale_items.product_id declared without references()
NoProductFk(items) == TRUE

\* foreign key sale_items.product_id -> products.id
ProductFkHolds(items) == \A k \in 1 .. Len(items) : items[k].productId \in DOMAIN products

\* foreign key sales.client_id -> clients.id
ClientFkHolds(sale) == sale.clientId = Null \/ sale.clientId \in DOMAIN clients

\* variant: the commit keeps the later of the two dates of a client
OnCommitKeepsLaterDate(r) ==
    [products |-> [p \in DOMAIN products |->
                      IF p \in DOMAIN tx[r].wStock
                      THEN [products[p] EXCEPT !.stock = tx[r].wStock[p]]
                      ELSE products[p]],
     clients |-> [c \in DOMAIN clients |->
                      IF c \in DOMAIN tx[r].wClients /\ tx[r].wClients[c] > clients[c].lastOrderDate
                      THEN [clients[c] EXCEPT !.lastOrderDate = tx[r].wClients[c]]
                      ELSE clients[c]],
     sales |-> sales \cup {tx[r].newSale},
     saleItems |-> saleItems \cup tx[r].wItems]

\* variant: the item rows are not part of what the commit publishes
OnCommitWithoutItems(r) ==
    [products |-> [p \in DOMAIN products |->
                      IF p \in DOMAIN tx[r].wStock
                      THEN [products[p] EXCEPT !.stock = tx[r].wStock[p]]
                      ELSE products[p]],
     clients |-> clients,
     sales |-> sales \cup {tx[r].newSale},
     saleItems |-> saleItems]

\* the visible tables once the transaction of r commits
OnCommit(r) ==
    [products |-> [p \in DOMAIN products |->
                      IF p \in DOMAIN tx[r].wStock
                      THEN [products[p] EXCEPT !.stock = tx[r].wStock[p]]
                      ELSE products[p]],
     clients |-> [c \in DOMAIN clients |->
                      IF c \in DOMAIN tx[r].wClients
                      THEN [clients[c] EXCEPT !.lastOrderDate = tx[r].wClients[c]]
                      ELSE clients[c]],
     sales |-> sales \cup {tx[r].newSale},
     saleItems |-> saleItems \cup tx[r].wItems]

\* variant: the sale header is inserted outside the transaction
OnRollbackKeepsHeader(r) ==
    [products |-> products, clients |-> clients,
     sales |-> IF tx[r].newSale.id # Null THEN sales \cup {tx[r].newSale} ELSE sales,
     saleItems |-> saleItems]

\* the visible tables once the transaction of r rolls back
OnRollback(r) ==
    [products |-> products, clients |-> clients, sales |-> sales, saleItems |-> saleItems]

\* what the caller is left with: the returned sale or the thrown error
Finished(r, pc, error) ==
    [IdleTx EXCEPT !.pc = pc, !.via = tx[r].via, !.error = error,
                   !.newSale = [NoSale EXCEPT !.id = tx[r].newSale.id]]

\* the callback throws: db.transaction rolls back and rejects
Rollback(r, error) ==
    /\ products' = OnRollback(r).products
    /\ clients' = OnRollback(r).clients
    /\ sales' = OnRollback(r).sales
    /\ saleItems' = OnRollback(r).saleItems
    /\ tx' = [tx EXCEPT ![r] = Finished(r, "failed", error)]

\* storage.createSale(sale, items) called directly
CreateSale(r, sale, items) ==
    /\ tx[r].pc = "idle"
    /\ tx' = [tx EXCEPT ![r] = [IdleTx EXCEPT !.pc = "insertSale", !.via = "direct",
                                             !.sale = sale, !.items = items]]
    /\ UNCHANGED <<tables, serials>>

\* ---------------------------------------------------------------- POST /api/sales
\* Date.prototype.toISOString and new Date(string)
ToISOString(d) == 100 + d
NewDate(s) == s - 100

\* a JSON array, a value that is no array, or no value at all
ArrayValue(elems) == [kind |-> "array", elems |-> elems]
ObjectValue == [kind |-> "object", elems |-> << >>]
UndefinedValue == [kind |-> "undefined", elems |-> << >>]

\* {clientId, date, total, items}
FlatBody(clientId, date, total, items) ==
    [NoBody EXCEPT !.clientId = clientId, !.date = date, !.total = total, !.items = items]

\* {sale: {clientId, date, total}, items}
NestedBody(clientId, date, total, items) ==
    [NoBody EXCEPT !.sale = [kind |-> "object", clientId |-> clientId, date |-> date, total |-> total],
                   !.items = items]

\* the branch of the handler a body takes
RouteBranch(body) ==
    IF body.items.kind = "array" THEN "flat"
    ELSE IF body.sale.kind = "object" /\ body.items.kind # "undefined" THEN "nested"
    ELSE "invalid"

\* typeof date === 'string' ? new Date(date) : new Date()
SaleDate(date, now) == IF date # Undefined THEN NewDate(date) ELSE now

\* total || "0"
TotalOrZero(total) == IF total = Undefined THEN 0 ELSE total

\* const sale = {clientId, date, total} built from the top-level fields
FlatSale(body, now) ==
    [id |-> Null,
     clientId |-> IF body.clientId = Undefined THEN Null ELSE body.clientId,
     date |-> SaleDate(body.date, now),
     total |-> TotalOrZero(body.total)]

\* const saleWithDefaults = {clientId, date, total} built from body.sale
NestedSale(body, now) ==
    [id |-> Null,
     clientId |-> IF body.sale.clientId = Undefined THEN Null ELSE body.sale.clientId,
     date |-> SaleDate(body.sale.date, now),
     total |-> TotalOrZero(body.sale.total)]

\* res.status(400): the handler returns before calling the storage
Reject(r, branch) ==
    tx' = [tx EXCEPT ![r] = [IdleTx EXCEPT !.pc = "rejected", !.via = branch]]

\* storage.createSale(sale, items) called by the handler
Submit(r, branch, body, sale, items) ==
    tx' = [tx EXCEPT ![r] = [IdleTx EXCEPT !.pc = "insertSale", !.via = branch, !.body = body,
                                           !.sale = sale, !.items = items]]

\* app.post("/api/sales")
PostSale(r, body, now) ==
    /\ tx[r].pc = "idle"
    /\ CASE RouteBranch(body) = "flat" ->
              IF Len(body.items.elems) = 0
              THEN Reject(r, "flat")
              ELSE Submit(r, "flat", body, FlatSale(body, now), body.items.elems)
         [] RouteBranch(body) = "nested" ->
              IF body.items.kind # "array" \/ Len(body.items.elems) = 0
              THEN Reject(r, "nested")
              ELSE Submit(r, "nested", body, NestedSale(body, now), body.items.elems)
         [] OTHER -> Reject(r, "invalid")
    /\ UNCHANGED <<tables, serials>>

\* the status the handler answers with
HttpStatus(r) ==
    CASE tx[r].pc = "committed" -> 201
      [] tx[r].pc = "rejected" -> 400
      [] tx[r].pc = "failed" -> 500
      [] OTHER -> 0

\* tx.insert(sales).values(sale).returning()
InsertSale(r) ==
    /\ tx[r].pc = "insertSale"
    /\ IF ClientFkHolds(tx[r].sale)
       THEN /\ saleSeq' = saleSeq + 1
            /\ tx' = [tx EXCEPT ![r].newSale = [tx[r].sale EXCEPT !.id = saleSeq + 1],
                                ![r].pc = IF Len(tx[r].items) > 0 THEN "insertItems" ELSE "commit"]
            /\ UNCHANGED tables
       ELSE /\ Rollback(r, "fk_client")
            /\ UNCHANGED saleSeq
    /\ UNCHANGED <<productSeq, clientSeq, saleItemSeq>>

\* tx.insert(saleItems).values(items.map(...))
InsertItems(r) ==
    /\ tx[r].pc = "insertItems"
    /\ IF ProductFkHolds(tx[r].items)
       THEN /\ saleItemSeq' = saleItemSeq + Len(tx[r].items)
            /\ tx' = [tx EXCEPT ![r].wItems = ItemRows(tx[r].items, tx[r].newSale.id, saleItemSeq),
                                ![r].pc = "updateStock", ![r].i = 1]
            /\ UNCHANGED tables
       ELSE /\ Rollback(r, "fk_product")
            /\ UNCHANGED saleItemSeq
    /\ UNCHANGED <<productSeq, clientSeq, saleSeq>>

\* for (const item of items) tx.update(products).set({stock: stock - quantity})
UpdateStock(r) ==
    /\ tx[r].pc = "updateStock"
    /\ LET item == tx[r].items[tx[r].i]
           p == item.productId
       IN /\ ~RowLockedByOther(r, p)
          /\ tx' = [tx EXCEPT ![r].wStock = IF p \in DOMAIN products
                                           THEN (p :> StockExpr(StockSeen(r, p), item.quantity)) @@ @
                                           ELSE @,
                              ![r].i = @ + 1,
                              ![r].pc = IF tx[r].i = Len(tx[r].items) THEN "updateClient" ELSE @]
    /\ UNCHANGED <<tables, serials>>

\* if (newSale.clientId) tx.update(clients).set({lastOrderDate: newSale.date})
UpdateClient(r) ==
    /\ tx[r].pc = "updateClient"
    /\ LET c == tx[r].newSale.clientId
       IN IF c # Null
          THEN /\ ~ClientRowLockedByOther(r, c)
               /\ tx' = [tx EXCEPT ![r].wClients = IF c \in DOMAIN clients
                                                   THEN (c :> tx[r].newSale.date) @@ @
                                                   ELSE @,
                                   ![r].pc = "commit"]
          ELSE tx' = [tx EXCEPT ![r].pc = "commit"]
    /\ UNCHANGED <<tables, serials>>

\* the callback returns newSale: db.transaction commits
Commit(r) ==
    /\ tx[r].pc = "commit"
    /\ products' = OnCommit(r).products
    /\ clients' = OnCommit(r).clients
    /\ sales' = OnCommit(r).sales
    /\ saleItems' = OnCommit(r).saleItems
    /\ tx' = [tx EXCEPT ![r] = Finished(r, "committed", "none")]
    /\ UNCHANGED serials

\* a statement of the open transaction fails in the store (connection loss,
\* deadlock victim): the callback throws
StorageFailure(r) ==
    /\ tx[r].pc \in {"insertItems", "updateStock", "updateClient", "commit"}
    /\ Rollback(r, "storage")
    /\ UNCHANGED serials

Next ==
    \/ \E price \in Prices, stock \in Stocks :
          CreateProduct(InsertProduct(price, stock), MaxDate) /\ UNCHANGED served
    \/ \E id \in ProductIds, price \in Prices, stock \in Stocks :
          UpdateProduct(id, InsertProduct(price, stock), MaxDate) /\ UNCHANGED served
    \/ \E now \in Dates : CreateClient(InsertClient, now) /\ UNCHANGED served
    \/ \E r \in Requests, c \in {Null} \cup ClientIds, d \in SaleDates, items \in ItemLists(Quantities) :
          /\ CreateSale(r, [id |-> Null, date |-> d, clientId |-> c, total |-> ItemsTotal(items)], items)
          /\ UNCHANGED served
    \/ \E r \in Requests : InsertSale(r) /\ UNCHANGED served
    \/ \E r \in Requests : InsertItems(r) /\ UNCHANGED served
    \/ \E r \in Requests : UpdateStock(r) /\ UNCHANGED served
    \/ \E r \in Requests : UpdateClient(r) /\ UNCHANGED served
    \/ \E r \in Requests : Commit(r) /\ UNCHANGED served
    \/ \E r \in Requests : StorageFailure(r) /\ UNCHANGED served

Spec == Init /\ [][Next]_vars

\* ---------------------------------------------------------------- client and product routes
\* a JSON string holding a decimal, or a JSON number
StringValue(v) == [kind |-> "string", value |-> v]
NumberValue(v) == [kind |-> "number", value |-> v]

\* insertProductSchema = createInsertSchema(products).omit({id, updatedAt}):
\* name, description, category strings; price (numeric column) a string;
\* stock (integer column) a number; minStock and sku optional.  No minimum,
\* no sign, no length is asked of any of them
InsertProductSchemaOk(body) == body.name # Undefined /\ body.price.kind = "string"

\* insertClientSchema = createInsertSchema(clients).omit({id, lastOrderDate})
InsertClientSchemaOk(body) == body.name # Undefined

\* validatedData.data
ProductData(body) ==
    [name |-> body.name, price |-> body.price.value, stock |-> body.stock,
     minStock |-> body.minStock, sku |-> body.sku]

\* res.status(status).json(...)
Respond(route, status, id, result) ==
    res' = [route |-> route, status |-> status, id |-> id, range |-> NoRange,
            result |-> result, seq |-> 1 - res.seq]

\* the answer of a report route, with the range the handler queried
RespondRange(route, startDate, endDate, result) ==
    res' = [route |-> route, status |-> 200, id |-> Null,
            range |-> [startDate |-> startDate, endDate |-> endDate],
            result |-> result, seq |-> 1 - res.seq]

\* the first row of .returning(), if any
Returning(table, id) == IF id \in DOMAIN table THEN <<table[id]>> ELSE << >>

\* app.post("/api/products")
PostProduct(body, now) ==
    /\ IF ~InsertProductSchemaOk(body)
       THEN /\ Respond("POST /api/products", 400, Null, << >>)
            /\ UNCHANGED <<tables, serials, tx>>
       ELSE /\ IF storage = "MemStorage"
               THEN MemCreateProduct(ProductData(body), now)
               ELSE CreateProduct(ProductData(body), now)
            /\ Respond("POST /api/products", 201, productSeq + 1,
                       Returning(products', productSeq + 1))
    /\ UNCHANGED <<storage, page, mem, shop>>

\* variant: the route takes whatever the storage returned for a row
NeverAbsent(rows) == FALSE

\* if (!updatedProduct) return res.status(404)
Absent(rows) == rows = << >>

\* the handler of app.put("/api/products/:id"): what it does to the store
\* and what it answers
PutProductHandler(id, body, now) ==
    IF ~InsertProductSchemaOk(body)
    THEN /\ Respond("PUT /api/products/:id", 400, id, << >>)
         /\ UNCHANGED <<tables, serials, tx>>
    ELSE /\ IF storage = "MemStorage"
            THEN MemUpdateProduct(id, ProductData(body), now)
            ELSE UpdateProduct(id, ProductData(body), now)
         /\ Respond("PUT /api/products/:id",
                    IF Absent(Returning(products', id)) THEN 404 ELSE 200, id,
                    Returning(products', id))

\* app.put("/api/products/:id")
PutProduct(id, body, now) ==
    /\ PutProductHandler(id, body, now)
    /\ UNCHANGED <<storage, page, mem, shop>>

\* variant: the delete reports success whatever it removed
AlwaysTrue(result) == TRUE

\* return result.length > 0
RowsDeleted(result) == Len(result) > 0

\* the status of a delete route: 500 when the storage throws, 404 when it
\* returns false (Map.delete returns whether the key was there)
DeleteStatus(table, id, referenced) ==
    IF storage = "MemStorage" THEN (IF id \in DOMAIN table THEN 200 ELSE 404)
    ELSE IF referenced THEN 500
    ELSE IF RowsDeleted(Returning(table, id)) THEN 200 ELSE 404

\* app.delete("/api/products/:id")
DeleteProductById(id) ==
    /\ IF storage = "MemStorage" THEN MemDeleteProduct(id) ELSE DeleteProduct(id)
    /\ Respond("DELETE /api/products/:id",
               DeleteStatus(products, id, ReferencedBySaleItems(id)), id, << >>)
    /\ UNCHANGED <<storage, page, mem, shop>>

\* app.post("/api/clients")
PostClient(body, now) ==
    /\ IF ~InsertClientSchemaOk(body)
       THEN /\ Respond("POST /api/clients", 400, Null, << >>)
            /\ UNCHANGED <<tables, serials, tx>>
       ELSE /\ IF storage = "MemStorage"
               THEN MemCreateClient(body, now)
               ELSE CreateClient(body, now)
            /\ Respond("POST /api/clients", 201, clientSeq + 1,
                       Returning(clients', clientSeq + 1))
    /\ UNCHANGED <<storage, page, mem, shop>>

\* app.put("/api/clients/:id")
PutClient(id, body) ==
    /\ IF ~InsertClientSchemaOk(body)
       THEN /\ Respond("PUT /api/clients/:id", 400, id, << >>)
            /\ UNCHANGED <<tables, serials, tx>>
       ELSE /\ IF storage = "MemStorage"
               THEN MemUpdateClient(id, body)
               ELSE UpdateClientById(id, body)
            /\ Respond("PUT /api/clients/:id",
                       IF Absent(Returning(clients', id)) THEN 404 ELSE 200, id,
                       Returning(clients', id))
    /\ UNCHANGED <<storage, page, mem, shop>>

\* app.delete("/api/clients/:id")
DeleteClientById(id) ==
    /\ IF storage = "MemStorage" THEN MemDeleteClient(id) ELSE DeleteClient(id)
    /\ Respond("DELETE /api/clients/:id",
               DeleteStatus(clients, id, ReferencedBySales(id)), id, << >>)
    /\ UNCHANGED <<storage, page, mem, shop>>

\* the request bodies and path ids of the bounded model
BodyNames == {Undefined} \cup Names
BodyPrices == {StringValue(0), StringValue(1), NumberValue(1)}
BodyStocks == {-1} \cup Stocks
BodyMinStocks == {Undefined, 1}
BodySkus == {Undefined, 1}
ProductBodies ==
    [name : BodyNames, price : BodyPrices, stock : BodyStocks,
     minStock : BodyMinStocks, sku : BodySkus]
ClientBodies == [name : BodyNames]
NamedClientIds == 1 .. MaxClients + 1
Storages == {"DatabaseStorage", "MemStorage"}

\* clients and products edited over HTTP, on either storage
NextCrud ==
    \/ \E body \in ProductBodies, now \in Dates : PostProduct(body, now)
    \/ \E id \in NamedProductIds, body \in ProductBodies, now \in Dates : PutProduct(id, body, now)
    \/ \E id \in NamedProductIds : DeleteProductById(id)
    \/ \E body \in ClientBodies, now \in Dates : PostClient(body, now)
    \/ \E id \in NamedClientIds, body \in ClientBodies : PutClient(id, body)
    \/ \E id \in NamedClientIds : DeleteClientById(id)

SpecCrud == (\E impl \in Storages : Installed(impl)) /\ [][NextCrud]_vars

\* the request bodies of the bounded model
BodyItemValues == {ArrayValue(l) : l \in ItemLists(BodyQuantities)} \cup {ObjectValue, UndefinedValue}
BodyClientIds == {Undefined, Null} \cup ClientIds
BodyDates == {Undefined} \cup {ToISOString(d) : d \in Dates}
BodyTotals(items) == {Undefined, ItemsTotal(items.elems)}
Bodies ==
    UNION {UNION {{FlatBody(c, d, t, items), NestedBody(c, d, t, items)} :
                  c \in BodyClientIds, d \in BodyDates, t \in BodyTotals(items)} :
           items \in BodyItemValues}
RouteRequests == {1}

\* sales submitted over HTTP, one request at a time
NextRoutes ==
    \/ \E price \in Prices, stock \in Stocks :
          CreateProduct(InsertProduct(price, stock), MaxDate) /\ UNCHANGED served
    \/ \E id \in ProductIds, price \in Prices, stock \in Stocks :
          UpdateProduct(id, InsertProduct(price, stock), MaxDate) /\ UNCHANGED served
    \/ \E now \in Dates : CreateClient(InsertClient, now) /\ UNCHANGED served
    \/ \E r \in RouteRequests :
          /\ tx[r].pc = "idle"
          /\ \E body \in Bodies, now \in Dates : PostSale(r, body, now)
          /\ UNCHANGED served
    \/ \E r \in Requests : InsertSale(r) /\ UNCHANGED served
    \/ \E r \in Requests : InsertItems(r) /\ UNCHANGED served
    \/ \E r \in Requests : UpdateStock(r) /\ UNCHANGED served
    \/ \E r \in Requests : UpdateClient(r) /\ UNCHANGED served
    \/ \E r \in Requests : Commit(r) /\ UNCHANGED served
    \/ \E r \in Requests : StorageFailure(r) /\ UNCHANGED served

SpecRoutes == Init /\ [][NextRoutes]_vars

\* ---------------------------------------------------------------- daily summary
\* timestamps of the report model: DayLength instants make a calendar day
Instants == 1 .. MaxInstant

\* DATE(sales.date)
DateOf(t) == (t - 1) \div DayLength

\* the total of the k-th sale, in cents: 10.00, 20.50, then 5.25
TotalOf(k) == CASE k = 1 -> 1000 [] k = 2 -> 2050 [] OTHER -> 525

\* SUM(sales.total) over a set of rows
RECURSIVE SumTotal(_)
SumTotal(rows) ==
    IF rows = {} THEN 0
    ELSE LET row == CHOOSE s \in rows : TRUE
         IN row.total + SumTotal(rows \ {row})

\* ORDER BY over a set of days
RECURSIVE Ascending(_)
Ascending(days) ==
    IF days = {} THEN << >>
    ELSE LET first == CHOOSE d \in days : \A e \in days : d <= e
         IN <<first>> \o Ascending(days \ {first})

\* WHERE sales.date >= startDate AND sales.date <= endDate
SalesBetween(startDate, endDate) ==
    {s \in sales : s.date >= startDate /\ s.date <= endDate}

\* DatabaseStorage.getSalesSummaryByDay: GROUP BY DATE(date) ORDER BY DATE(date)
GetSalesSummaryByDay(startDate, endDate) ==
    LET rows == SalesBetween(startDate, endDate)
        days == Ascending({DateOf(s.date) : s \in rows})
        Group(day) == {s \in rows : DateOf(s.date) = day}
    IN [k \in 1 .. Len(days) |->
           [date |-> days[k], total |-> SumTotal(Group(days[k])),
            count |-> Cardinality(Group(days[k]))]]

\* startDate.setDate(startDate.getDate() - 30)
ThirtyDaysBefore(now) == now - 30 * DayLength

\* app.get("/api/sales/summary/daily"): a query parameter left out is Undefined
GetSalesSummaryDaily(startDate, endDate, now) ==
    /\ LET start == IF startDate # Undefined THEN startDate ELSE ThirtyDaysBefore(now)
           end == IF endDate # Undefined THEN endDate ELSE now
       IN RespondRange("GET /api/sales/summary/daily", start, end,
                       GetSalesSummaryByDay(start, end))
    /\ UNCHANGED <<tables, serials, tx, storage, page, mem, shop>>

\* the sales of a store that has sold n times: one line item each, one product
SoldRow(id, date, total) == [id |-> id, date |-> date, clientId |-> Null, total |-> total]
SoldItem(id, total) ==
    [id |-> id, saleId |-> id, productId |-> 1, quantity |-> 1, unitPrice |-> total,
     total |-> total]

HasSold(n, date) ==
    /\ products = (1 :> InsertedRow(InsertProduct(1, 0), 1))
    /\ clients = << >>
    /\ sales = {SoldRow(k, date[k], TotalOf(k)) : k \in 1 .. n}
    /\ saleItems = {SoldItem(k, TotalOf(k)) : k \in 1 .. n}
    /\ productSeq = 1
    /\ clientSeq = 0
    /\ saleSeq = n
    /\ saleItemSeq = n
    /\ tx = [r \in Requests |-> IdleTx]
    /\ storage = "DatabaseStorage"
    /\ res = NoResponse
    /\ page = NoPage
    /\ mem = NoMem
    /\ shop = NoShop

InitSummary ==
    \E n \in 0 .. MaxSales :
        \E date \in [1 .. n -> Instants] : HasSold(n, date)

QueryDates == {Undefined} \cup Instants

\* ---------------------------------------------------------------- GET routes of the sales
\* parseInt of a path segment that is not a number
NaN == -2

\* parseInt(req.params.id)
ParseInt(segment) ==
    IF \E n \in 0 .. MaxSales + 1 : ToString(n) = segment
    THEN CHOOSE n \in 0 .. MaxSales + 1 : ToString(n) = segment
    ELSE NaN

\* the GET routes under /api/sales and /api/sale-items, in the order in which
\* registerRoutes registers them; a path is the sequence of its segments
GetRoutes ==
    <<[name |-> "GET /api/sales", path |-> <<"sales">>],
      [name |-> "GET /api/sales/:id", path |-> <<"sales", ":id">>],
      [name |-> "GET /api/sales/summary/daily", path |-> <<"sales", "summary", "daily">>],
      [name |-> "GET /api/sale-items", path |-> <<"sale-items">>],
      [name |-> "GET /api/sales/items", path |-> <<"sales", "items">>]>>

\* a route path matches a request path segment by segment, :id matching any
Matches(pattern, path) ==
    /\ Len(pattern) = Len(path)
    /\ \A k \in 1 .. Len(pattern) : pattern[k] = ":id" \/ pattern[k] = path[k]

\* the router runs the first registered route that matches; no handler here
\* calls next()
Dispatch(path) ==
    LET hits == {k \in 1 .. Len(GetRoutes) : Matches(GetRoutes[k].path, path)}
    IN IF hits = {} THEN "none"
       ELSE GetRoutes[CHOOSE k \in hits : \A j \in hits : k <= j].name

\* a response of a sales GET route; range holds the query the handler read
Answer(route, status, startDate, endDate, result) ==
    res' = [route |-> route, status |-> status, id |-> Null,
            range |-> [startDate |-> startDate, endDate |-> endDate],
            result |-> result, seq |-> 1 - res.seq]

\* .orderBy(desc(sales.date)); rows of one date come in no stated order,
\* here by descending id
RECURSIVE ByDateDescending(_)
ByDateDescending(rows) ==
    IF rows = {} THEN << >>
    ELSE LET first == CHOOSE s \in rows :
                          \A t \in rows : s.date > t.date \/ (s.date = t.date /\ s.id >= t.id)
         IN <<first>> \o ByDateDescending(rows \ {first})

\* DatabaseStorage.getSales
GetSales(startDate, endDate) ==
    IF startDate # Undefined /\ endDate # Undefined
    THEN ByDateDescending(SalesBetween(startDate, endDate))
    ELSE ByDateDescending(sales)

\* app.get("/api/sales/:id"): with an id that is NaN the query either finds no
\* row (404) or is refused by the database (500)
GetSaleById(segment) ==
    LET id == ParseInt(segment)
        found == {s \in sales : s.id = id}
    IN IF id = NaN
       THEN \E status \in {404, 500} :
                Answer("GET /api/sales/:id", status, Undefined, Undefined, << >>)
       ELSE IF found = {}
       THEN Answer("GET /api/sales/:id", 404, Undefined, Undefined, << >>)
       ELSE Answer("GET /api/sales/:id", 200, Undefined, Undefined, ByDateDescending(found))

\* app.get("/api/sale-items"): sale_items INNER JOIN products INNER JOIN sales
GetSaleItems(startDate, endDate, now) ==
    LET start == IF startDate # Undefined THEN startDate ELSE ThirtyDaysBefore(now)
        end == IF endDate # Undefined THEN endDate ELSE now
        joined == {i \in saleItems :
                      /\ i.productId \in DOMAIN products
                      /\ \E sale \in SalesBetween(start, end) : sale.id = i.saleId}
        ids == Ascending({i.id : i \in joined})
    IN Answer("GET /api/sale-items", 200, start, end,
              [k \in 1 .. Len(ids) |-> CHOOSE i \in joined : i.id = ids[k]])

\* app.get("/api/sales/items"): res.redirect to /api/sale-items with the
\* startDate and endDate of the query
RedirectToSaleItems(startDate, endDate) ==
    Answer("GET /api/sales/items", 302, startDate, endDate, <<"sale-items">>)

\* a GET request under /api/sales or /api/sale-items
Get(path, startDate, endDate, now) ==
    /\ LET route == Dispatch(path)
       IN CASE route = "GET /api/sales" ->
                   Answer(route, 200, startDate, endDate, GetSales(startDate, endDate))
            [] route = "GET /api/sales/:id" -> GetSaleById(path[2])
            [] route = "GET /api/sales/summary/daily" ->
                   GetSalesSummaryDaily(startDate, endDate, now)
            [] route = "GET /api/sale-items" -> GetSaleItems(startDate, endDate, now)
            [] route = "GET /api/sales/items" -> RedirectToSaleItems(startDate, endDate)
            [] OTHER -> Answer("none", 404, Undefined, Undefined, << >>)
    /\ UNCHANGED <<tables, serials, tx, storage, page, mem, shop>>

GetPaths ==
    {<<"sales">>, <<"sales", "items">>, <<"sales", "summary", "daily">>, <<"sale-items">>}
        \cup {<<"sales", ToString(n)>> : n \in 1 .. MaxSales + 1}

\* the requests are made after the last instant a sale can carry
NextSummary ==
    \E path \in GetPaths, startDate \in QueryDates, endDate \in QueryDates :
        Get(path, startDate, endDate, MaxInstant)

SpecSummary == InitSummary /\ [][NextSummary]_vars

\* ---------------------------------------------------------------- deletes among sales
\* products and clients edited and deleted while one request sells
NextDelete ==
    \/ \E price \in Prices, stock \in Stocks :
          CreateProduct(InsertProduct(price, stock), MaxDate) /\ UNCHANGED served
    \/ \E now \in Dates : CreateClient(InsertClient, now) /\ UNCHANGED served
    \/ \E r \in RouteRequests, c \in {Null} \cup ClientIds, d \in SaleDates,
          items \in ItemLists(Quantities) :
          /\ CreateSale(r, [id |-> Null, date |-> d, clientId |-> c, total |-> ItemsTotal(items)], items)
          /\ UNCHANGED served
    \/ \E r \in Requests : InsertSale(r) /\ UNCHANGED served
    \/ \E r \in Requests : InsertItems(r) /\ UNCHANGED served
    \/ \E r \in Requests : UpdateStock(r) /\ UNCHANGED served
    \/ \E r \in Requests : UpdateClient(r) /\ UNCHANGED served
    \/ \E r \in Requests : Commit(r) /\ UNCHANGED served
    \/ \E r \in Requests : StorageFailure(r) /\ UNCHANGED served
    \/ \E id \in NamedProductIds : DeleteProductById(id)
    \/ \E id \in NamedClientIds : DeleteClientById(id)
    \/ \E id \in ProductIds, price \in Prices, stock \in Stocks :
          UpdateProduct(id, InsertProduct(price, stock), MaxDate) /\ UNCHANGED served
    \/ \E id \in NamedClientIds, body \in ClientBodies : PutClient(id, body)

SpecDelete == Init /\ [][NextDelete]_vars

\* ---------------------------------------------------------------- search and the two storages
\* the characters of the texts: a letter in both cases and the LIKE wildcard
Alphabet == {"a", "b", "B", "_"}
Texts == UNION {[1 .. n -> Alphabet] : n \in 0 .. MaxText}

\* the text a stored name or sku stands for
TextOf(code) == CASE code = 1 -> <<"a", "B">> [] code = 2 -> <<"B">> [] OTHER -> <<"a">>

\* String.prototype.toLowerCase
ToLowerCase(text) == [k \in 1 .. Len(text) |-> IF text[k] = "B" THEN "b" ELSE text[k]]

\* String.prototype.includes
Includes(text, part) ==
    \E at \in 0 .. Len(text) - Len(part) : \A k \in 1 .. Len(part) : text[at + k] = part[k]

\* ilike(column, `%${term}%`): case-insensitive, _ in the term matches any
\* one character
Ilike(text, term) ==
    \E at \in 0 .. Len(text) - Len(term) :
        \A k \in 1 .. Len(term) :
            term[k] = "_" \/ ToLowerCase(text)[at + k] = ToLowerCase(term)[k]

SearchTerms == {NoTerm} \cup {StringValue(t) : t \in Texts}

\* if (search): undefined and "" are falsy
Truthy(search) == search.kind = "string" /\ search.value # << >>

\* a row as the interface returns it
WithId(id, row) == [id |-> id, row |-> row]

\* variant: the statement selects no row
SelectNothing(table) == << >>

\* db.select().from(table), and Array.from(map.values()): every row, here in
\* the order of the ids
SelectFrom(table) ==
    LET ids == Ascending(DOMAIN table)
    IN [k \in 1 .. Len(ids) |-> WithId(ids[k], table[ids[k]])]

\* Array.prototype.filter, and WHERE
RECURSIVE Filter(_, _)
Filter(rows, keep) ==
    IF rows = << >> THEN << >>
    ELSE (IF Head(rows).id \in keep THEN <<Head(rows)>> ELSE << >>) \o Filter(Tail(rows), keep)

\* DatabaseStorage.getProducts: name and sku stand for the searched columns;
\* ilike of a NULL sku is not true
DbGetProducts(search) ==
    IF Truthy(search)
    THEN Filter(SelectFrom(products),
                {id \in DOMAIN products :
                    \/ Ilike(TextOf(products[id].name), ToLowerCase(search.value))
                    \/ /\ products[id].sku # Null
                       /\ Ilike(TextOf(products[id].sku), ToLowerCase(search.value))})
    ELSE SelectFrom(products)

\* DatabaseStorage.getClients
DbGetClients(search) ==
    IF Truthy(search)
    THEN Filter(SelectFrom(clients),
                {id \in DOMAIN clients :
                    Ilike(TextOf(clients[id].name), ToLowerCase(search.value))})
    ELSE SelectFrom(clients)

\* MemStorage.getProducts: product.sku && ... skips a sku that is null or
\* was never set
MemGetProducts(search) ==
    IF Truthy(search)
    THEN Filter(SelectFrom(mem.products),
                {id \in DOMAIN mem.products :
                    \/ Includes(ToLowerCase(TextOf(mem.products[id].name)),
                                ToLowerCase(search.value))
                    \/ /\ mem.products[id].sku \notin {Null, Undefined}
                       /\ Includes(ToLowerCase(TextOf(mem.products[id].sku)),
                                   ToLowerCase(search.value))})
    ELSE SelectFrom(mem.products)

\* MemStorage.getClients
MemGetClients(search) ==
    IF Truthy(search)
    THEN Filter(SelectFrom(mem.clients),
                {id \in DOMAIN mem.clients :
                    Includes(ToLowerCase(TextOf(mem.clients[id].name)),
                             ToLowerCase(search.value))})
    ELSE SelectFrom(mem.clients)

\* what a call of the storage interface returned: the database's answer in
\* res, the map-backed storage's answer in mem.returned, the term of the last
\* search in mem.search
Returned(call, argument, result) == Respond(call, 0, argument, result)

\* the same createProduct on both storages
BothCreateProduct(product, now) ==
    /\ CreateProduct(product, now)
    /\ Returned("createProduct", Null,
                <<WithId(productSeq + 1, products'[productSeq + 1])>>)
    /\ mem' = [mem EXCEPT !.products = (mem.productId :> MemNewProduct(product, now)) @@ @,
                          !.productId = @ + 1,
                          !.returned = <<WithId(mem.productId, MemNewProduct(product, now))>>]
    /\ UNCHANGED <<storage, page, shop>>

\* the same updateProduct on both storages
BothUpdateProduct(id, product, now) ==
    /\ UpdateProduct(id, product, now)
    /\ Returned("updateProduct", id,
                IF id \in DOMAIN products THEN <<WithId(id, products'[id])>> ELSE << >>)
    /\ mem' = IF id \in DOMAIN mem.products
              THEN [mem EXCEPT !.products[id] = Spread(mem.products[id], product, now),
                               !.returned = <<WithId(id, Spread(mem.products[id], product, now))>>]
              ELSE [mem EXCEPT !.returned = << >>]
    /\ UNCHANGED <<storage, page, shop>>

\* the same deleteProduct on both storages
BothDeleteProduct(id) ==
    /\ DeleteProduct(id)
    /\ Returned("deleteProduct", id, <<RowsDeleted(Returning(products, id))>>)
    /\ mem' = [mem EXCEPT !.products = WithoutRow(@, id),
                          !.returned = <<id \in DOMAIN mem.products>>]
    /\ UNCHANGED <<storage, page, shop>>

\* the same getProduct on both storages
BothGetProduct(id) ==
    /\ Returned("getProduct", id,
                IF id \in DOMAIN products THEN <<WithId(id, products[id])>> ELSE << >>)
    /\ mem' = [mem EXCEPT !.returned = IF id \in DOMAIN mem.products
                                       THEN <<WithId(id, mem.products[id])>> ELSE << >>]
    /\ UNCHANGED <<tables, serials, tx, storage, page, shop>>

\* the same getProducts on both storages
BothGetProducts(search) ==
    /\ Returned("getProducts", Null, DbGetProducts(search))
    /\ mem' = [mem EXCEPT !.search = search, !.returned = MemGetProducts(search)]
    /\ UNCHANGED <<tables, serials, tx, storage, page, shop>>

\* the same createClient on both storages
BothCreateClient(client, now) ==
    /\ CreateClient(client, now)
    /\ Returned("createClient", Null, <<WithId(clientSeq + 1, clients'[clientSeq + 1])>>)
    /\ mem' = [mem EXCEPT !.clients = (mem.clientId :> [name |-> client.name,
                                                        lastOrderDate |-> now]) @@ @,
                          !.clientId = @ + 1,
                          !.returned = <<WithId(mem.clientId, [name |-> client.name,
                                                               lastOrderDate |-> now])>>]
    /\ UNCHANGED <<storage, page, shop>>

\* the same updateClient on both storages
BothUpdateClient(id, client) ==
    /\ UpdateClientById(id, client)
    /\ Returned("updateClient", id,
                IF id \in DOMAIN clients THEN <<WithId(id, clients'[id])>> ELSE << >>)
    /\ mem' = IF id \in DOMAIN mem.clients
              THEN [mem EXCEPT !.clients[id].name = client.name,
                               !.returned = <<WithId(id, [mem.clients[id] EXCEPT
                                                             !.name = client.name])>>]
              ELSE [mem EXCEPT !.returned = << >>]
    /\ UNCHANGED <<storage, page, shop>>

\* the same deleteClient on both storages
BothDeleteClient(id) ==
    /\ DeleteClient(id)
    /\ Returned("deleteClient", id, <<RowsDeleted(Returning(clients, id))>>)
    /\ mem' = [mem EXCEPT !.clients = WithoutRow(@, id),
                          !.returned = <<id \in DOMAIN mem.clients>>]
    /\ UNCHANGED <<storage, page, shop>>

\* the same getClient on both storages
BothGetClient(id) ==
    /\ Returned("getClient", id,
                IF id \in DOMAIN clients THEN <<WithId(id, clients[id])>> ELSE << >>)
    /\ mem' = [mem EXCEPT !.returned = IF id \in DOMAIN mem.clients
                                       THEN <<WithId(id, mem.clients[id])>> ELSE << >>]
    /\ UNCHANGED <<tables, serials, tx, storage, page, shop>>

\* the same getClients on both storages
BothGetClients(search) ==
    /\ Returned("getClients", Null, DbGetClients(search))
    /\ mem' = [mem EXCEPT !.search = search, !.returned = MemGetClients(search)]
    /\ UNCHANGED <<tables, serials, tx, storage, page, shop>>

\* the InsertProduct and InsertClient values of the calls
StoredProducts ==
    [name : Names, price : {1}, stock : {1}, minStock : {Undefined, 1}, sku : {Undefined, Null, 2}]
StoredClients == [name : Names]

NextStorages ==
    \/ \E product \in StoredProducts : BothCreateProduct(product, MaxDate)
    \/ \E id \in NamedProductIds, product \in StoredProducts :
          BothUpdateProduct(id, product, MaxDate)
    \/ \E id \in NamedProductIds : BothDeleteProduct(id)
    \/ \E id \in NamedProductIds : BothGetProduct(id)
    \/ \E search \in SearchTerms : BothGetProducts(search)
    \/ \E client \in StoredClients : BothCreateClient(client, MaxDate)
    \/ \E id \in NamedClientIds, client \in StoredClients : BothUpdateClient(id, client)
    \/ \E id \in NamedClientIds : BothDeleteClient(id)
    \/ \E id \in NamedClientIds : BothGetClient(id)
    \/ \E search \in SearchTerms : BothGetClients(search)

SpecStorages == Init /\ [][NextStorages]_vars

\* ---------------------------------------------------------------- sales page
\* the stock of the product on sale: enough for every session's cart
ShopStock == MaxRequests * MaxQuantity

\* processSale.isPending
IsPending(s) == shop[s].pc \in {"posting", "putting"}

\* the page is mounted: useQuery fetches /api/products
OpenSalesPage(s) ==
    /\ shop[s].pc = "closed"
    /\ shop' = [shop EXCEPT ![s].pc = "idle", ![s].fetching = TRUE]
    /\ UNCHANGED <<tables, serials, tx, storage, res, page, mem>>

\* GET /api/products answers: the query's data is the products of now
ProductsFetched(s) ==
    /\ shop[s].fetching
    /\ shop' = [shop EXCEPT ![s].data = products, ![s].fetching = FALSE]
    /\ UNCHANGED <<tables, serials, tx, storage, res, page, mem>>

\* cart.findIndex(item => item.product.id === productId)
FindIndex(cart, productId) ==
    IF \E k \in DOMAIN cart : cart[k].product.id = productId
    THEN CHOOSE k \in DOMAIN cart :
             /\ cart[k].product.id = productId
             /\ \A j \in DOMAIN cart : cart[j].product.id = productId => k <= j
    ELSE -1

\* handleAddToCart, with a product chosen among availableProducts; a refusal
\* (toast, return) leaves the cart as it is.  The user edits the cart while
\* no sale is pending
HandleAddToCart(s, productId, quantity) ==
    /\ shop[s].pc # "closed" /\ ~IsPending(s)
    /\ productId \in DOMAIN shop[s].data
    /\ shop[s].data[productId].stock > 0
    /\ LET product == WithId(productId, shop[s].data[productId])
           cart == shop[s].cart
           existingItemIndex == FindIndex(cart, productId)
       IN shop' =
            IF product.row.stock < quantity THEN shop
            ELSE IF existingItemIndex >= 0
            THEN IF cart[existingItemIndex].quantity + quantity > product.row.stock
                 THEN shop
                 ELSE [shop EXCEPT ![s].cart[existingItemIndex].quantity = @ + quantity]
            ELSE [shop EXCEPT ![s].cart = Append(cart, [product |-> product,
                                                        quantity |-> quantity])]
    /\ UNCHANGED <<tables, serials, tx, storage, res, page, mem>>

\* updatedCart.splice(index, 1)
Splice(cart, index) == [k \in 1 .. Len(cart) - 1 |-> IF k < index THEN cart[k] ELSE cart[k + 1]]

\* handleRemoveFromCart
HandleRemoveFromCart(s, index) ==
    /\ shop[s].pc # "closed" /\ ~IsPending(s)
    /\ index \in DOMAIN shop[s].cart
    /\ shop' = [shop EXCEPT ![s].cart = Splice(@, index)]
    /\ UNCHANGED <<tables, serials, tx, storage, res, page, mem>>

\* handleUpdateQuantity: the limit is the stock of the product as it was put
\* in the cart
HandleUpdateQuantity(s, index, newQuantity) ==
    /\ shop[s].pc # "closed" /\ ~IsPending(s)
    /\ index \in DOMAIN shop[s].cart
    /\ shop' = IF newQuantity <= 0
               THEN [shop EXCEPT ![s].cart = Splice(@, index)]
               ELSE IF newQuantity > shop[s].cart[index].product.row.stock
               THEN shop
               ELSE [shop EXCEPT ![s].cart[index].quantity = newQuantity]
    /\ UNCHANGED <<tables, serials, tx, storage, res, page, mem>>

\* saleRequest.items
SaleRequestItems(items) ==
    [k \in 1 .. Len(items) |->
        LineItem(items[k].product.id, items[k].quantity, items[k].product.row.price)]

\* handleFinalizeSale and the first fetch of processSale.mutationFn:
\* POST /api/sales with {clientId: null, date, total, items}; the sessions
\* together submit one sale each at most
HandleFinalizeSale(s, now) ==
    /\ shop[s].pc # "closed" /\ ~IsPending(s)
    /\ shop[s].cart # << >>
    /\ saleSeq < MaxRequests
    /\ PostSale(s, FlatBody(Null, ToISOString(now),
                            ItemsTotal(SaleRequestItems(shop[s].cart)),
                            ArrayValue(SaleRequestItems(shop[s].cart))), now)
    /\ shop' = [shop EXCEPT ![s].pc = "posting", ![s].items = shop[s].cart,
                            ![s].i = 0, ![s].saleId = Null]
    /\ UNCHANGED <<storage, res, page, mem>>

\* onError: a toast, the cart stays
OnError(s) == [shop EXCEPT ![s].pc = "failed"]

\* onSuccess: setCart([]) and invalidateQueries, which refetches the products
OnSuccess(s) ==
    [shop EXCEPT ![s].pc = "succeeded", ![s].cart = << >>, ![s].fetching = TRUE]

\* saleResponse arrives: if (!saleResponse.ok) throw, else go on to the stock
SaleAnswered(s) ==
    /\ shop[s].pc = "posting"
    /\ tx[s].pc \in {"committed", "rejected", "failed"}
    /\ shop' = IF HttpStatus(s) = 201
               THEN [shop EXCEPT ![s].pc = "putting", ![s].i = 1,
                                 ![s].saleId = tx[s].newSale.id]
               ELSE OnError(s)
    /\ tx' = [tx EXCEPT ![s] = IdleTx]
    /\ UNCHANGED <<tables, serials, storage, res, page, mem>>

\* body of the PUT: {...item.product, stock: item.product.stock - item.quantity}
StockBody(item) ==
    [name |-> item.product.row.name, price |-> StringValue(item.product.row.price),
     stock |-> item.product.row.stock - item.quantity,
     minStock |-> item.product.row.minStock, sku |-> item.product.row.sku]

\* one turn of for (const item of saleData.items): PUT /api/products/:id and
\* its answer
PutStock(s, now) ==
    /\ shop[s].pc = "putting"
    /\ LET item == shop[s].items[shop[s].i]
       IN PutProductHandler(item.product.id, StockBody(item), now)
    /\ shop' = IF res'.status # 200 THEN OnError(s)
               ELSE IF shop[s].i = Len(shop[s].items) THEN OnSuccess(s)
               ELSE [shop EXCEPT ![s].i = @ + 1]
    /\ UNCHANGED <<storage, page, mem>>

\* the update fails in the store: the handler's catch answers 500 and
\* mutationFn throws
PutStockFails(s) ==
    /\ shop[s].pc = "putting"
    /\ Respond("PUT /api/products/:id", 500, shop[s].items[shop[s].i].product.id, << >>)
    /\ shop' = OnError(s)
    /\ UNCHANGED <<tables, serials, tx, storage, page, mem>>

\* sessions of the sales page selling one product
NextShop ==
    \/ /\ \A s \in Requests : shop[s].pc = "closed"
       /\ CreateProduct(InsertProduct(1, ShopStock), MaxDate)
       /\ UNCHANGED served
    \/ \E s \in Requests : productSeq > 0 /\ OpenSalesPage(s)
    \/ \E s \in Requests : ProductsFetched(s)
    \/ \E s \in Requests, productId \in ProductIds, quantity \in Quantities :
          HandleAddToCart(s, productId, quantity)
    \/ \E s \in Requests, index \in 1 .. MaxProducts : HandleRemoveFromCart(s, index)
    \/ \E s \in Requests, index \in 1 .. MaxProducts, step \in {-1, 1} :
          HandleUpdateQuantity(s, index, shop[s].cart[index].quantity + step)
    \/ \E s \in Requests : HandleFinalizeSale(s, MaxDate)
    \/ \E r \in Requests : InsertSale(r) /\ UNCHANGED served
    \/ \E r \in Requests : InsertItems(r) /\ UNCHANGED served
    \/ \E r \in Requests : UpdateStock(r) /\ UNCHANGED served
    \/ \E r \in Requests : UpdateClient(r) /\ UNCHANGED served
    \/ \E r \in Requests : Commit(r) /\ UNCHANGED served
    \/ \E r \in Requests : StorageFailure(r) /\ UNCHANGED served
    \/ \E s \in Requests : SaleAnswered(s)
    \/ \E s \in Requests : PutStock(s, MaxDate)
    \/ \E s \in Requests : PutStockFails(s)

SpecShop == Init /\ [][NextShop]_vars

\* ---------------------------------------------------------------- top products
\* 'Produto não encontrado'
ProductNotFound == 0

\* typeof item.unitPrice === 'string' ? parseFloat(item.unitPrice) : item.unitPrice
UnitPrice(item) == item.unitPrice.value

\* productMap[id] after the forEach over the sale items
RECURSIVE ProductMap(_, _)
ProductMap(items, id) ==
    IF items = << >> THEN [quantity |-> 0, total |-> 0]
    ELSE LET rest == ProductMap(SubSeq(items, 1, Len(items) - 1), id)
             item == items[Len(items)]
         IN IF item.productId = id
            THEN [quantity |-> rest.quantity + item.quantity,
                  total |-> rest.total + item.quantity * UnitPrice(item)]
            ELSE rest

\* variant: the keys in the order in which the forEach added them
KeysAsAdded(items) ==
    LET first == {k \in 1 .. Len(items) : \A j \in 1 .. k - 1 : items[j].productId # items[k].productId}
        at == Ascending(first)
    IN [n \in 1 .. Len(at) |-> items[at[n]].productId]

\* the keys of Object.entries(productMap): productMap is keyed by productId,
\* and an object lists its integer keys in ascending order, whatever the order
\* in which they were added
Keys(items) == Ascending({items[k].productId : k \in 1 .. Len(items)})

\* products.find(p => p.id === id)?.name || 'Produto não encontrado'
NameOf(prods, id) ==
    IF \E k \in 1 .. Len(prods) : prods[k].id = id
    THEN prods[CHOOSE k \in 1 .. Len(prods) :
                   prods[k].id = id /\ \A j \in 1 .. k - 1 : prods[j].id # id].name
    ELSE ProductNotFound

\* .sort((a, b) => b.quantity - a.quantity): a stable sort, an entry goes after
\* the entries before it that sold at least as much
RECURSIVE SortByQuantity(_)
SortByQuantity(list) ==
    IF list = << >> THEN << >>
    ELSE LET sorted == SortByQuantity(SubSeq(list, 1, Len(list) - 1))
             last == list[Len(list)]
             n == Cardinality({k \in 1 .. Len(sorted) : sorted[k].quantity >= last.quantity})
         IN SubSeq(sorted, 1, n) \o <<last>> \o SubSeq(sorted, n + 1, Len(sorted))

\* .slice(0, limit), limit >= 0
Slice(list, limit) == SubSeq(list, 1, IF limit < Len(list) THEN limit ELSE Len(list))

\* if (!saleItems.length || !products.length) return []
NothingToRank(items, prods) == Len(items) = 0 \/ Len(prods) = 0

\* calculateTopProducts(saleItems, products, limit)
CalculateTopProducts(items, prods, limit) ==
    IF NothingToRank(items, prods) THEN << >>
    ELSE LET keys == Keys(items)
             entries == [k \in 1 .. Len(keys) |->
                            [id |-> keys[k], name |-> NameOf(prods, keys[k]),
                             quantity |-> ProductMap(items, keys[k]).quantity,
                             total |-> ProductMap(items, keys[k]).total]]
         IN Slice(SortByQuantity(entries), limit)

\* the ranking of the arrays the page holds, cut to limit
RankTopProducts(limit) ==
    /\ page' = [page EXCEPT !.limit = limit,
                            !.topProducts = CalculateTopProducts(page.saleItems, page.products, limit)]
    /\ UNCHANGED <<tables, serials, tx, storage, res, mem, shop>>

\* calculateTopProductsFromSaleItems(): the same ranking with .slice(0, 5)
CalculateTopProductsFromSaleItems == RankTopProducts(5)

\* the arrays a ranking is computed from: sale items as GET /api/sale-items
\* sends them (unit price as a decimal string) and products as
\* GET /api/products sends them
RankedIds == 1 .. MaxRanked
TopQuantities == {5, 10, 30}
TopItem(id, quantity, price) ==
    [productId |-> id, quantity |-> quantity, unitPrice |-> StringValue(price)]
TopItems == {TopItem(id, q, price) : id \in RankedIds, q \in TopQuantities, price \in Prices}
TopItemLists == UNION {[1 .. n -> TopItems] : n \in 0 .. MaxTopItems}
\* the listed price is the product's price of today, not a price it was sold at
ListedProduct(id) == [id |-> id, name |-> id, price |-> MaxPrice + 1]
Listed(ids) == [k \in 1 .. Len(ids) |-> ListedProduct(ids[k])]
TopProductLists == {Listed(Ascending(ids)) : ids \in SUBSET RankedIds}
Limits == {1, 2, 5}

InitTop ==
    /\ EmptyStore
    /\ storage = "DatabaseStorage"
    /\ res = NoResponse
    /\ mem = NoMem
    /\ shop = NoShop
    /\ \E items \in TopItemLists, prods \in TopProductLists :
           page = [NoPage EXCEPT !.saleItems = items, !.products = prods]

NextTop ==
    \/ \E limit \in Limits : RankTopProducts(limit)
    \/ CalculateTopProductsFromSaleItems

SpecTop == InitTop /\ [][NextTop]_vars

TypeOK ==
    /\ DOMAIN products \subseteq ProductIds
    /\ DOMAIN clients \subseteq ClientIds

\* ---------------------------------------------------------------- properties
\* request r commits its transaction in this step
CommitStep(r) == tx[r].pc = "commit" /\ tx'[r].pc = "committed"

\* request r takes this step
StepOf(r) == tx'[r] # tx[r]

SaleVisible(id) == \E s \in sales : s.id = id

\* C1: in every reachable state every product's stock is >= 0.
C1_StockNonNegative == \A p \in DOMAIN products : products[p].stock >= 0

\* C2: when a createSale commits, each product's stock becomes its stock just
\* before the commit minus the quantities the call sold of it, whatever other
\* createSale calls ran in between: no decrement is lost.
C2_NoDecrementLost ==
    [][\A r \in Requests : CommitStep(r) =>
          \A p \in DOMAIN products :
              products'[p].stock = products[p].stock - SumQuantity(tx[r].items, p)]_vars

\* two calls overlapped on one product: the second to start has committed, the
\* first has decremented the same product after that and is about to commit
C2_Witness ==
    \E r1, r2 \in Requests :
        /\ tx[r1].pc = "committed" /\ tx[r2].pc = "commit"
        /\ tx[r2].newSale.id < tx[r1].newSale.id
        /\ \E i \in saleItems : i.saleId = tx[r1].newSale.id /\ i.productId \in DOMAIN tx[r2].wStock

\* C3: a createSale whose line item asks for more than the product's current
\* stock fails at that decrement.
C3_OversellFails ==
    [][\A r \in Requests :
          (/\ tx[r].pc = "updateStock" /\ StepOf(r)
           /\ tx[r].items[tx[r].i].productId \in DOMAIN products
           /\ tx[r].items[tx[r].i].quantity > StockSeen(r, tx[r].items[tx[r].i].productId))
          => tx'[r].pc = "failed"]_vars

\* C4: when a createSale fails after its header was inserted, the failing step
\* leaves products, clients, sales and sale items as they were, and no row of
\* the call is in them.
C4_FailureRollsBack ==
    [][\A r \in Requests :
          (InFlight(r) /\ tx[r].newSale.id # Null /\ tx'[r].pc = "failed") =>
              /\ products' = products /\ clients' = clients
              /\ sales' = sales /\ saleItems' = saleItems
              /\ \A s \in sales' : s.id # tx[r].newSale.id
              /\ \A i \in saleItems' : i.saleId # tx[r].newSale.id]_vars

\* a call failed after its header was inserted while another sale is committed
C4_Witness ==
    \E r \in Requests :
        /\ tx[r].pc = "failed" /\ tx[r].newSale.id # Null /\ tx[r].error = "storage"
        /\ sales # {} /\ saleItems # {}

C6_SnapshotPriceFixed ==
    [][\A i \in saleItems :
          \E j \in saleItems' :
              j.id = i.id /\ j.unitPrice = i.unitPrice /\ j.total = i.total]_vars

\* the price of a product differs from the unit price recorded when it was sold
C6_Witness ==
    \E i \in saleItems :
        /\ i.productId \in DOMAIN products
        /\ products[i.productId].price # i.unitPrice

\* the flat body carrying the values of a nested body
FlatOf(body) == FlatBody(body.sale.clientId, body.sale.date, body.sale.total, body.items)

\* C7: a sale submitted in the nested shape reaches createSale with the same
\* clientId, date, total and items as the flat body carrying the same values.
C7_NestedSameAsFlat ==
    \A r \in Requests :
        (InFlight(r) /\ tx[r].body.sale.kind = "object") =>
            /\ tx[r].sale = FlatSale(FlatOf(tx[r].body), tx[r].sale.date)
            /\ tx[r].items = FlatOf(tx[r].body).items.elems

\* C8: no transaction is opened and no sale header inserted for an empty list
\* of line items.
C8_EmptySaleRejected ==
    \A r \in Requests :
        (InFlight(r) /\ tx[r].newSale.id # Null) => Len(tx[r].items) > 0

\* C9: a submitted sale never commits an increase of a product's stock.
C9_SaleNeverIncreasesStock ==
    [][\A r \in Requests : CommitStep(r) =>
          \A p \in DOMAIN products : products'[p].stock <= products[p].stock]_vars

\* C10: a createSale naming a product that does not exist when its items are
\* inserted fails at that insert without any visible change, and no call
\* commits while one of its line items names a missing product.
C10_MissingProductFails ==
    [][\A r \in Requests :
          /\ (/\ tx[r].pc = "insertItems" /\ StepOf(r)
               /\ \E k \in 1 .. Len(tx[r].items) : tx[r].items[k].productId \notin DOMAIN products)
              => /\ tx'[r].pc = "failed"
                 /\ products' = products /\ clients' = clients
                 /\ sales' = sales /\ saleItems' = saleItems
          /\ CommitStep(r) =>
                 \A k \in 1 .. Len(tx[r].items) : tx[r].items[k].productId \in DOMAIN products]_vars

\* a call was refused by the product foreign key after its header was inserted,
\* while a product exists
C10_Witness ==
    \E r \in Requests :
        /\ tx[r].pc = "failed" /\ tx[r].error = "fk_product"
        /\ tx[r].newSale.id # Null /\ ~SaleVisible(tx[r].newSale.id)
        /\ DOMAIN products # {}

\* a route answers in this step
Responds(route) == res'.seq # res.seq /\ res'.route = route

\* the product rows this step writes
RowsWritten ==
    {p \in DOMAIN products' : p \notin DOMAIN products \/ products'[p] # products[p]}

\* C11: a product create or update whose stock is negative or whose price is
\* not positive is answered 400 and writes nothing: no row written by
\* POST /api/products or PUT /api/products/:id has a negative stock or a price
\* that is not positive.
C11_InvalidProductRejected ==
    [][(Responds("POST /api/products") \/ Responds("PUT /api/products/:id")) =>
          \A p \in RowsWritten : products'[p].stock >= 0 /\ products'[p].price > 0]_vars

\* the days of the queried range and the sales made on a day
Summarised == res.route = "GET /api/sales/summary/daily" /\ res.status = 200

SalesOfDay(day) == {s \in sales : DateOf(s.date) = day}

\* C12: every entry of a daily summary carries the sum of the totals of all
\* sales of its calendar day, and their number.
C12_SummaryTotalsOfDay ==
    Summarised =>
        \A k \in 1 .. Len(res.result) :
            /\ res.result[k].total = SumTotal(SalesOfDay(res.result[k].date))
            /\ res.result[k].count = Cardinality(SalesOfDay(res.result[k].date))

\* C13: a daily summary has exactly one entry for each calendar day from
\* the day of startDate to the day of endDate on which a sale was made, no
\* entry for a day without sales, and its entries are in strictly ascending
\* order of date.
C13_OneEntryPerDayWithSales ==
    Summarised =>
        LET entries == res.result
            days == DateOf(res.range.startDate) .. DateOf(res.range.endDate)
        IN /\ \A day \in days :
                  SalesOfDay(day) # {} =>
                      Cardinality({k \in 1 .. Len(entries) : entries[k].date = day}) = 1
           /\ \A k \in 1 .. Len(entries) :
                  entries[k].date \in days /\ SalesOfDay(entries[k].date) # {}
           /\ \A k \in 1 .. Len(entries) - 1 : entries[k].date < entries[k + 1].date

\* ---------------------------------------------------------------- top products
Ranked == page.limit # 0
SoldIds == {page.saleItems[k].productId : k \in 1 .. Len(page.saleItems)}
ItemsOf(id) == {k \in 1 .. Len(page.saleItems) : page.saleItems[k].productId = id}
RECURSIVE SumOver(_, _)
SumOver(ks, value) ==
    IF ks = {} THEN 0
    ELSE LET k == CHOOSE x \in ks : TRUE IN value[k] + SumOver(ks \ {k}, value)
QuantitySold(id) ==
    SumOver(ItemsOf(id), [k \in 1 .. Len(page.saleItems) |-> page.saleItems[k].quantity])
AmountSold(id) ==
    SumOver(ItemsOf(id), [k \in 1 .. Len(page.saleItems) |->
                             page.saleItems[k].quantity * page.saleItems[k].unitPrice.value])
FirstSold(id) == CHOOSE k \in ItemsOf(id) : \A j \in ItemsOf(id) : k <= j
ListedIds == {page.products[k].id : k \in 1 .. Len(page.products)}

\* C14: the ranking has one entry per sold product id, carrying the summed
\* quantity and the summed quantity x unit price of its sale items, ordered by
\* quantity descending and cut to the limit (the best sellers are the ones
\* kept); items (1,10),(2,30),(1,5) with limit 2 rank as 2 with 30, then 1 with 15
C14_TopProductsRanking ==
    Ranked =>
        LET top == page.topProducts
            n == IF page.limit < Cardinality(SoldIds) THEN page.limit ELSE Cardinality(SoldIds)
        IN /\ Len(top) = n
           /\ \A k \in 1 .. Len(top) :
                  /\ top[k].id \in SoldIds
                  /\ top[k].quantity = QuantitySold(top[k].id)
                  /\ top[k].total = AmountSold(top[k].id)
                  /\ \A j \in 1 .. Len(top) : top[j].id = top[k].id => j = k
           /\ \A k \in 1 .. Len(top) - 1 : top[k].quantity >= top[k + 1].quantity
           /\ \A id \in SoldIds :
                  (\A k \in 1 .. Len(top) : top[k].id # id) =>
                      \A k \in 1 .. Len(top) : top[k].quantity >= QuantitySold(id)
           /\ ((/\ Len(page.saleItems) = 3
                /\ page.limit = 2
                /\ [k \in 1 .. 3 |-> page.saleItems[k].productId] = <<1, 2, 1>>
                /\ [k \in 1 .. 3 |-> page.saleItems[k].quantity] = <<10, 30, 5>>)
               => /\ [k \in 1 .. Len(top) |-> top[k].id] = <<2, 1>>
                  /\ [k \in 1 .. Len(top) |-> top[k].quantity] = <<30, 15>>)

\* C15: two ranked products with the same summed quantity appear in the order
\* in which their ids first occur in the sale items
C15_TiesInDiscoveryOrder ==
    Ranked =>
        \A j, k \in 1 .. Len(page.topProducts) :
            (j < k /\ page.topProducts[j].quantity = page.topProducts[k].quantity) =>
                FirstSold(page.topProducts[j].id) < FirstSold(page.topProducts[k].id)

\* C15 (amended): two ranked products with the same summed quantity appear in
\* ascending order of their product ids, whatever the order of the sale items
C15_TiesInAscendingIdOrder ==
    Ranked =>
        \A j, k \in 1 .. Len(page.topProducts) :
            (j < k /\ page.topProducts[j].quantity = page.topProducts[k].quantity) =>
                page.topProducts[j].id < page.topProducts[k].id

\* a tie between two ranked products, the one ranked first sold later
C15_Witness ==
    /\ Ranked
    /\ Len(page.topProducts) = 2
    /\ page.topProducts[1].quantity = page.topProducts[2].quantity
    /\ FirstSold(page.topProducts[1].id) > FirstSold(page.topProducts[2].id)

\* C16: when the limit cuts nothing, every sold product id that is not in the
\* product list, an empty list included, is ranked with its whole summed
\* quantity under the name "Produto não encontrado"
C16_MissingProductStillRanked ==
    (Ranked /\ page.limit >= Cardinality(SoldIds)) =>
        \A id \in SoldIds \ ListedIds :
            \E k \in 1 .. Len(page.topProducts) :
                /\ page.topProducts[k].id = id
                /\ page.topProducts[k].name = ProductNotFound
                /\ page.topProducts[k].quantity = QuantitySold(id)

\* ---------------------------------------------------------------- deletes
\* C17: no sale item ever points at a missing product, and a delete of a
\* product that sale items reference is not answered as a success and leaves
\* the products, the sales and the sale items as they were
C17_ReferencedProductKept ==
    [][/\ \A i \in saleItems' : i.productId \in DOMAIN products'
       /\ (/\ Responds("DELETE /api/products/:id")
           /\ \E i \in saleItems : i.productId = res'.id)
          => /\ res'.status # 200
             /\ UNCHANGED <<products, sales, saleItems>>]_vars

\* a delete of a product with sale history has been answered
C17_Witness ==
    /\ res.route = "DELETE /api/products/:id"
    /\ res.status = 500
    /\ res.id \in DOMAIN products
    /\ \E i \in saleItems : i.productId = res.id

\* C18: a delete of a client is answered 200 exactly when the row was there
\* and is gone, and 404 with no table changed when the id had no row; so a
\* second delete of the same id is answered 404
C18_DeleteReportsRemoval ==
    [][Responds("DELETE /api/clients/:id") =>
          /\ res'.status = 200 <=>
                 (res'.id \in DOMAIN clients /\ res'.id \notin DOMAIN clients')
          /\ res'.id \notin DOMAIN clients =>
                 (res'.status = 404 /\ UNCHANGED tables)]_vars

\* the second delete of a client id: the id was given out, the row is gone,
\* the answer is 404
C18_Witness ==
    /\ res.route = "DELETE /api/clients/:id"
    /\ res.status = 404
    /\ res.id <= clientSeq
    /\ res.id \notin DOMAIN clients

\* ---------------------------------------------------------------- updates
\* C19: an update of a product or client id that has no row is answered 404
\* (400 when the body is rejected before the storage is called), returns no
\* row, inserts nothing and leaves every table as it was
C19_UpdateOfAbsentIdDeclined ==
    [][(\/ Responds("PUT /api/products/:id") /\ res'.id \notin DOMAIN products
        \/ Responds("PUT /api/clients/:id") /\ res'.id \notin DOMAIN clients)
       => /\ res'.status \in {400, 404}
          /\ res'.result = << >>
          /\ UNCHANGED <<tables, serials>>]_vars

\* an update of a product id without a row was answered 404 while another
\* product is stored
C19_Witness ==
    /\ res.route = "PUT /api/products/:id"
    /\ res.status = 404
    /\ res.id \notin DOMAIN products
    /\ products # << >>

\* C20: an accepted update of a stored product leaves the row a create of the
\* same fields would store: every supplied field as supplied, an omitted
\* optional field as a create leaves it and not at its previous value,
\* updatedAt now
C20_UpdateReplacesEveryField ==
    [][\A id \in NamedProductIds, body \in ProductBodies, now \in Dates :
          (/\ PutProduct(id, body, now)
           /\ id \in DOMAIN products
           /\ InsertProductSchemaOk(body))
          => products'[id] = IF storage = "MemStorage"
                             THEN MemNewProduct(ProductData(body), now)
                             ELSE InsertedRow(ProductData(body), now)]_vars

\* ---------------------------------------------------------------- sale history
\* C22: at the commit of a sale that names a client, the client's
\* lastOrderDate becomes the date of the sale; the commit of a sale without a
\* client changes no client
C22_LastOrderDateIsSaleDate ==
    [][\A r \in Requests :
          CommitStep(r) =>
              IF tx[r].newSale.clientId # Null
              THEN clients'[tx[r].newSale.clientId].lastOrderDate = tx[r].newSale.date
              ELSE clients' = clients]_vars

\* C23: a step never removes or changes a committed sale: every row of sales
\* is a row of sales afterwards, with its id, date, clientId and total
C23_SalesOnlyGrow == [][sales \subseteq sales']_vars

\* a delete of the client of a committed sale has been answered
C23_Witness ==
    /\ res.route = "DELETE /api/clients/:id"
    /\ \E s \in sales : s.clientId = res.id

\* C24: every sale item belongs to a committed sale, and every committed sale
\* has at least one sale item
C24_SalesOwnTheirItems ==
    /\ \A i \in saleItems : \E s \in sales : s.id = i.saleId
    /\ \A s \in sales : \E i \in saleItems : i.saleId = s.id

\* C28: no step moves the lastOrderDate of a client backwards
C28_LastOrderDateNeverBackwards ==
    [][\A c \in DOMAIN clients :
          c \in DOMAIN clients' => clients'[c].lastOrderDate >= clients[c].lastOrderDate]_vars

\* C28 (amended): the commit of a sale with at least one line item sets the
\* lastOrderDate of its client to the date of the sale, later or earlier than
\* the date before; no other step changes a lastOrderDate
C28_LastOrderDateFollowsSale ==
    [][\A c \in DOMAIN clients :
          c \in DOMAIN clients' =>
              IF \E r \in Requests :
                     CommitStep(r) /\ tx[r].newSale.clientId = c /\ Len(tx[r].items) > 0
              THEN \E r \in Requests :
                     /\ CommitStep(r) /\ tx[r].newSale.clientId = c
                     /\ clients'[c].lastOrderDate = tx[r].newSale.date
              ELSE clients'[c].lastOrderDate = clients[c].lastOrderDate]_vars

\* a sale dated before the present day is committed and its client carries
\* the date of that sale
C28_Witness ==
    \E s \in sales :
        /\ s.clientId \in DOMAIN clients
        /\ s.date < MaxDate
        /\ clients[s.clientId].lastOrderDate = s.date
        /\ \E i \in saleItems : i.saleId = s.id

\* ---------------------------------------------------------------- legacy path
\* C26: a GET of /api/sales/items is answered by the handler registered for
\* that path: a redirect to /api/sale-items that carries the startDate and
\* endDate of the request
C26_LegacyPathRedirected ==
    [][\A startDate \in QueryDates, endDate \in QueryDates :
          Get(<<"sales", "items">>, startDate, endDate, MaxInstant) =>
              /\ res'.route = "GET /api/sales/items"
              /\ res'.status = 302
              /\ res'.result = <<"sale-items">>
              /\ res'.range = [startDate |-> startDate, endDate |-> endDate]]_vars

\* the rows of a list, as a set
AsSet(rows) == {rows[k] : k \in DOMAIN rows}

\* C21: for every store content and every search term, the list without a
\* term is the list of the empty term and holds every row, and the list of a
\* term is a part of it; for products and clients, on both storages
C21_SearchNarrowsTheList ==
    /\ AsSet(DbGetProducts(NoTerm)) = {WithId(id, products[id]) : id \in DOMAIN products}
    /\ AsSet(DbGetClients(NoTerm)) = {WithId(id, clients[id]) : id \in DOMAIN clients}
    /\ AsSet(MemGetProducts(NoTerm)) = {WithId(id, mem.products[id]) : id \in DOMAIN mem.products}
    /\ AsSet(MemGetClients(NoTerm)) = {WithId(id, mem.clients[id]) : id \in DOMAIN mem.clients}
    /\ AsSet(DbGetProducts(NoTerm)) = AsSet(DbGetProducts(StringValue(<< >>)))
    /\ AsSet(DbGetClients(NoTerm)) = AsSet(DbGetClients(StringValue(<< >>)))
    /\ AsSet(MemGetProducts(NoTerm)) = AsSet(MemGetProducts(StringValue(<< >>)))
    /\ AsSet(MemGetClients(NoTerm)) = AsSet(MemGetClients(StringValue(<< >>)))
    /\ \A search \in SearchTerms :
          /\ AsSet(DbGetProducts(search)) \subseteq AsSet(DbGetProducts(NoTerm))
          /\ AsSet(DbGetClients(search)) \subseteq AsSet(DbGetClients(NoTerm))
          /\ AsSet(MemGetProducts(search)) \subseteq AsSet(MemGetProducts(NoTerm))
          /\ AsSet(MemGetClients(search)) \subseteq AsSet(MemGetClients(NoTerm))

\* a search, on both storages, whose term left a stored product out
C21_Witness ==
    /\ res.route = "getProducts"
    /\ Truthy(mem.search)
    /\ Len(res.result) < Cardinality(DOMAIN products)
    /\ Len(mem.returned) < Cardinality(DOMAIN mem.products)

\* C27: MemStorage and DatabaseStorage return the same result to every call
\* of every sequence of create, update, delete, get and list calls on
\* products and clients
C27_StoragesReturnTheSame == res.result = mem.returned

\* the quantity of product p over the committed sale items
RECURSIVE SoldQuantity(_, _)
SoldQuantity(rows, p) ==
    IF rows = {} THEN 0
    ELSE LET row == CHOOSE row \in rows : TRUE
         IN (IF row.productId = p THEN row.quantity ELSE 0) + SoldQuantity(rows \ {row}, p)

\* C25: once every session of the sales page has completed its sale of the
\* same product (POST /api/sales, then PUT /api/products/:id per cart item),
\* the product's stock is its initial stock minus the quantities sold
C25_NoLostStockUpdate ==
    (/\ \A s \in Requests : shop[s].pc = "succeeded"
     /\ Cardinality(sales) = MaxRequests) =>
        \A p \in DOMAIN products : products[p].stock = ShopStock - SoldQuantity(saleItems, p)

\* C29: while the sales page shows a sale as failed (onError, the cart kept
\* for a retry), no sale of that attempt is in the store
C29_FailedSaleNotPersisted ==
    \A s \in Requests :
        shop[s].pc = "failed" => shop[s].saleId \notin {sale.id : sale \in sales}

\* C30: in every cart of the sales page a product is in one item at most, and
\* every item's quantity is at least 1 and at most the stock of its product
\* as last fetched
C30_CartWithinFetchedStock ==
    \A s \in Requests :
        LET cart == shop[s].cart
        IN /\ \A j, k \in DOMAIN cart : cart[j].product.id = cart[k].product.id => j = k
           /\ \A k \in DOMAIN cart :
                 /\ cart[k].quantity >= 1
                 /\ cart[k].product.id \in DOMAIN shop[s].data =>
                        cart[k].quantity <= shop[s].data[cart[k].product.id].stock

============================================================================
